---------------------------- MODULE Spec2Model ----------------------------
(***************************************************************************)
(* Resumable page-level processing pipeline of promigas-index-func.        *)
(*                                                                         *)
(* Two drivers share the durable state table and the search index:         *)
(*   "cli"   : process_documents   (src/document_processor.py)             *)
(*   "timer" : time_trigg_func     (src/function_app.py)                   *)
(* The CLI driver additionally keeps the local checkpoint last_files.json. *)
(*                                                                         *)
(* Every external call (table lookup/upsert, file load/save, open, render, *)
(* describe, embed, publish) has a nondeterministic outcome drawn from the *)
(* parameter `oks` of its action: BOOLEAN in Spec, {TRUE} in SpecLive.     *)
(***************************************************************************)
EXTENDS Integers, Sequences, FiniteSets, TLC

\* ------------------------------------------------------------------ bounds
Names == {"a", "b"}          \* document names known to the remote store
MaxPages == 2                \* most pages a document version has
NumVersions == 2             \* distinct contents per page count
MaxBudget == 2               \* largest --max-pages / MAX_PAGES_PER_EXECUTION tried
NumUuids == 4                \* values uuid.uuid4() is drawn from
MaxRuns == 2                 \* invocations per behaviour (Spec only)
MaxEdits == 1                \* replacements of a remote document per behaviour
MaxFaults == 3               \* failed external calls per behaviour

\* ------------------------------------------------------- program constants
max_retries == 3
initial_retry_delay == 1

\* ------------------------------------------------------------------ values
Contents == [ver : 1..NumVersions, pages : 1..MaxPages]
\* no document of that name in the remote store
Absent == [ver |-> 0, pages |-> 0]
UUIDs == 1..NumUuids
Drivers == {"cli", "timer"}

Max(a, b) == IF a >= b THEN a ELSE b

\* dict with no keys
EmptyMap == [n \in {} |-> 0]
\* dict.get(k, 0)
MapGet(m, k) == IF k \in DOMAIN m THEN m[k] ELSE 0
\* m[k] = v
MapPut(m, k, v) == [x \in (DOMAIN m) \cup {k} |-> IF x = k THEN v ELSE m[x]]

\* hashlib.md5(content).hexdigest(): distinct contents, distinct digests
get_document_hash(c) == c.ver * (MaxPages + 1) + c.pages

\* table_client.get_entity raising (no entity) is the record NoRec
NoRec == [doc_hash |-> 0, last_processed_page |-> 0, total_pages |-> 0, status |-> "none"]

\* variant: the lookup never reports a completed record
get_processing_state_never_completed(table, doc_name, doc_hash, getOk) ==
    IF ~getOk \/ table[doc_name] = NoRec
    THEN <<0, FALSE>>
    ELSE <<table[doc_name].last_processed_page, FALSE>>

\* variant: a lookup that raised is answered from the record all the same
get_processing_state_record_on_error(table, doc_name, doc_hash, getOk) ==
    IF table[doc_name] = NoRec
    THEN <<0, FALSE>>
    ELSE IF table[doc_name].doc_hash = doc_hash /\ table[doc_name].status = "completed"
         THEN <<table[doc_name].last_processed_page, TRUE>>
         ELSE <<table[doc_name].last_processed_page, FALSE>>

\* variant: a record under another hash counts as no record
get_processing_state_zero_on_mismatch(table, doc_name, doc_hash, getOk) ==
    IF ~getOk \/ table[doc_name] = NoRec \/ table[doc_name].doc_hash # doc_hash
    THEN <<0, FALSE>>
    ELSE <<table[doc_name].last_processed_page, table[doc_name].status = "completed">>

\* returns <<last_processed_page, is_completed>>; getOk = FALSE: the lookup raised
get_processing_state(table, doc_name, doc_hash, getOk) ==
    IF ~getOk \/ table[doc_name] = NoRec
    THEN <<0, FALSE>>
    ELSE IF table[doc_name].doc_hash = doc_hash /\ table[doc_name].status = "completed"
         THEN <<table[doc_name].last_processed_page, TRUE>>
         ELSE <<table[doc_name].last_processed_page, FALSE>>

\* variant: the record is written one page ahead of last_page
update_processing_state_page_ahead(table, doc_name, doc_hash, last_page, total, status, upsertOk) ==
    IF upsertOk
    THEN [table EXCEPT ![doc_name] = [doc_hash |-> doc_hash, last_processed_page |-> last_page + 1,
                                      total_pages |-> total, status |-> status]]
    ELSE table

\* variant: the record is written one page behind last_page
update_processing_state_page_behind(table, doc_name, doc_hash, last_page, total, status, upsertOk) ==
    IF upsertOk
    THEN [table EXCEPT ![doc_name] = [doc_hash |-> doc_hash,
                                      last_processed_page |-> IF last_page > 0 THEN last_page - 1 ELSE 0,
                                      total_pages |-> total, status |-> status]]
    ELSE table

\* upsertOk = FALSE: upsert_entity raised, the exception is logged
update_processing_state(table, doc_name, doc_hash, last_page, total, status, upsertOk) ==
    IF upsertOk
    THEN [table EXCEPT ![doc_name] = [doc_hash |-> doc_hash, last_processed_page |-> last_page,
                                      total_pages |-> total, status |-> status]]
    ELSE table

\* loadOk = FALSE: the file is unreadable (an absent file reads as the empty map)
load_last_files_json(file, loadOk) == IF loadOk THEN file ELSE EmptyMap

\* variant: the data are merged into the file, keys not in the data are kept
save_last_files_json_merged(file, data, saveOk) ==
    IF saveOk
    THEN [x \in (DOMAIN file) \cup (DOMAIN data) |-> IF x \in DOMAIN data THEN data[x] ELSE file[x]]
    ELSE file

\* saveOk = FALSE: the write raised, the file keeps its content
save_last_files_json(file, data, saveOk) == IF saveOk THEN data ELSE file

\* variant: the updated map is not written back
update_file_progress_unsaved(file, file_name, current_page, loadOk, saveOk) == file

\* variant: the page before current_page is written
update_file_progress_page_behind(file, file_name, current_page, loadOk, saveOk) ==
    save_last_files_json(file, MapPut(load_last_files_json(file, loadOk), file_name,
                                      IF current_page > 0 THEN current_page - 1 ELSE 0), saveOk)

update_file_progress(file, file_name, current_page, loadOk, saveOk) ==
    save_last_files_json(file, MapPut(load_last_files_json(file, loadOk), file_name, current_page), saveOk)

\* variant: the comparison uses page_idx for page_idx + 1
AdvanceStatus_off_by_one(p, total) == IF p = total THEN "completed" ELSE "processing"

\* status = 'completed' if page_idx + 1 == total_pages else 'processing'
AdvanceStatus(p, total) == IF p + 1 = total THEN "completed" ELSE "processing"

\* variant: the local checkpoint is ignored
EffectiveResume_durable_only(durableLast, localLast) == durableLast

\* max(last_processed_page, last_processed_from_json)
EffectiveResume(durableLast, localLast) == Max(durableLast, localLast)

\* the lists the Content Fetcher can return from the names `present`: distinct
\* names in any order; a file whose details or download fail is left out
DocLists(present) == {s \in UNION {[1..n -> present] : n \in 0..Cardinality(present)} :
                         \A i, j \in DOMAIN s : i # j => s[i] # s[j]}
FullDocLists(present) == {s \in DocLists(present) : Len(s) = Cardinality(present)}

CliArgs == [dry_run : BOOLEAN, reset_tracking : BOOLEAN]
TimerArgs == [dry_run : {FALSE}, reset_tracking : {FALSE}]
ArgsOf(drv) == IF drv = "cli" THEN CliArgs ELSE TimerArgs

\* --------------------------------------------------------------- variables
VARIABLES
    content,            \* remote store: name -> current content
    durable,            \* state table: name -> record or NoRec
    localFile,          \* last_files.json: dict name -> page
    indexed,            \* search index: {<<name, page>>} published with status 200
    table_client,       \* TABLE_STORAGE_CONNECTION_STRING is set: the state table is used
    max_pages_per_execution, \* --max-pages / MAX_PAGES_PER_EXECUTION of the deployment
    runs,               \* invocations started
    edits,              \* replacements of remote documents
    faults,             \* external calls that have failed
    pc,                 \* position of the running invocation, "idle" when none
    driver, args, documents, last_files_data,
    pages_processed, documents_processed, expired,
    tally,              \* history of the invocation: ledger advances invoked, page loops entered
    docIdx, last_processed_page, is_completed, total_pages, last_processed_from_json,
    dRead,              \* history: last_processed_page as returned by get_processing_state
    page_idx, embedding_vector, document_id, attempt, retry_delay,
    faulted,            \* history: an external call failed in this invocation
    skipped,            \* history: <<page, cause>> skipped in the current document pass
    pageLog,            \* history of the current page: posts, upserts, writes, time.sleep calls
    search_index,       \* search index: the entries [id, name, page], one per id
    exit_code,          \* what main() returned: <<>> while it has not, <<0>> or <<1>>
    summary,            \* the final results were logged by the invocation
    interrupted,        \* history: the user interrupted the invocation
    other,              \* local variables of a second invocation that overlaps the running one
    drive,              \* SharePoint drive: folder path -> the items of the folder
    folder_path,        \* SHAREPOINT_FOLDER_PATH, as path segments (<<>> is the root)
    fpc,                \* position of get_sharepoint_documents, "idle" when not called
    total_files, files_list, pdf_files,
    file_idx,           \* position of the `for` loop at hand in get_sharepoint_documents
    fetched,            \* `documents` of get_sharepoint_documents: the list it builds and returns
    fetchLog,           \* history: the steps and the files that failed in the call
    progress_calls,     \* invocation -> its call of update_file_progress: position and locals
    latest,             \* history: name -> the page of the last completed update_file_progress
    to_publish,         \* the <<name, page number>> the timer driver has yet to publish
    published           \* history: the <<name, page number>> it has published

stores == <<content, durable, localFile, indexed>>
runv == <<driver, args, documents, last_files_data>>
counters == <<pages_processed, documents_processed, tally>>
docv == <<docIdx, last_processed_page, is_completed, total_pages, last_processed_from_json, dRead>>
pagev == <<page_idx, embedding_vector, document_id, attempt, retry_delay>>
fv == <<faults, faulted>>
env == <<table_client, max_pages_per_execution, runs>>
mainv == <<exit_code, summary, interrupted>>
fetchv == <<drive, folder_path, fpc, total_files, files_list, pdf_files, file_idx, fetched, fetchLog>>
progressv == <<progress_calls, latest>>
idv == <<to_publish, published>>
auxv == <<fetchv, progressv, idv>>
vars == <<stores, env, mainv, search_index, edits, other, auxv, fv, pc, runv, counters, expired, docv, pagev,
          skipped, pageLog>>

NoArgs == [dry_run |-> FALSE, reset_tracking |-> FALSE]
NoId == <<"", 0>>
NoTally == [advances |-> 0, entered |-> 0]
NoLog == [posts |-> {}, ok200 |-> 0, upserts |-> 0, writes |-> 0, counted |-> 0, sleeps |-> <<>>]

\* the local variables of an invocation, as a record
Locals ==
    [pc |-> pc, driver |-> driver, args |-> args, documents |-> documents,
     last_files_data |-> last_files_data, pages_processed |-> pages_processed,
     documents_processed |-> documents_processed, tally |-> tally, expired |-> expired,
     docIdx |-> docIdx,
     last_processed_page |-> last_processed_page, is_completed |-> is_completed,
     total_pages |-> total_pages, last_processed_from_json |-> last_processed_from_json,
     dRead |-> dRead, page_idx |-> page_idx, embedding_vector |-> embedding_vector,
     document_id |-> document_id, attempt |-> attempt, retry_delay |-> retry_delay,
     skipped |-> skipped, pageLog |-> pageLog]
\* the local variables when no invocation runs
IdleLocals ==
    [pc |-> "idle", driver |-> "cli", args |-> NoArgs, documents |-> <<>>,
     last_files_data |-> EmptyMap, pages_processed |-> 0, documents_processed |-> 0,
     tally |-> NoTally, expired |-> FALSE, docIdx |-> 1, last_processed_page |-> 0, is_completed |-> FALSE,
     total_pages |-> 0, last_processed_from_json |-> 0, dRead |-> 0, page_idx |-> 0,
     embedding_vector |-> FALSE, document_id |-> NoId, attempt |-> 0,
     retry_delay |-> initial_retry_delay, skipped |-> {}, pageLog |-> NoLog]

doc_info == documents[docIdx]
doc_name == doc_info.name
doc_hash == doc_info.hash

Present == {n \in Names : content[n] # Absent}

\* get_sharepoint_documents is not running
NoFetchLog == [early |-> FALSE, dropped |-> {}, nourl |-> {}]
FetchIdle ==
    /\ drive = (<<>> :> <<>>)
    /\ folder_path = <<>>
    /\ fpc = "idle"
    /\ total_files = 0
    /\ files_list = <<>>
    /\ pdf_files = <<>>
    /\ file_idx = 1
    /\ fetched = <<>>
    /\ fetchLog = NoFetchLog

\* two invocations that may run at the same time
Invocations == {1, 2}
\* no call of update_file_progress is under way
NoCall == [pc |-> "idle", file_name |-> "", current_page |-> 0, last_files_data |-> EmptyMap]
ProgressIdle ==
    /\ progress_calls = [i \in Invocations |-> NoCall]
    /\ latest = EmptyMap

\* no page is handed to the publish step on its own
IdsIdle ==
    /\ to_publish = {}
    /\ published = {}

\* the state before the first invocation: the documents `present` are in the
\* remote store, both progress stores and the index are empty
InitStores(present, tables, budgets) ==
    /\ content \in [Names -> {c \in Contents : c.ver = 1} \cup {Absent}]
    /\ \A n \in Names : content[n] # Absent <=> n \in present
    /\ table_client \in tables
    /\ max_pages_per_execution \in budgets
    /\ edits = 0
    /\ faults = 0
    /\ durable = [n \in Names |-> NoRec]
    /\ localFile = EmptyMap
    /\ indexed = {}
    /\ runs = 0
    /\ pc = "idle"
    /\ driver = "cli"
    /\ args = NoArgs
    /\ documents = <<>>
    /\ last_files_data = EmptyMap
    /\ pages_processed = 0
    /\ documents_processed = 0
    /\ tally = NoTally
    /\ expired = FALSE
    /\ docIdx = 1
    /\ last_processed_page = 0
    /\ is_completed = FALSE
    /\ total_pages = 0
    /\ last_processed_from_json = 0
    /\ dRead = 0
    /\ page_idx = 0
    /\ embedding_vector = FALSE
    /\ document_id = NoId
    /\ attempt = 0
    /\ retry_delay = initial_retry_delay
    /\ faulted = FALSE
    /\ skipped = {}
    /\ pageLog = NoLog
    /\ search_index = {}
    /\ exit_code = <<>>
    /\ summary = FALSE
    /\ interrupted = FALSE
    /\ other = IdleLocals

InitBudgets(present, tables, budgets) ==
    InitStores(present, tables, budgets) /\ FetchIdle /\ ProgressIdle /\ IdsIdle

\* with a page budget of at least one page
InitWith(present, tables) == InitBudgets(present, tables, 1..MaxBudget)

Init == InitWith({"a"}, BOOLEAN)

\* ---------------------------------------------------------------- actions

\* k external calls of the step failed
Failures(k) ==
    /\ faults + k <= MaxFaults
    /\ faults' = faults + k
    /\ faulted' = (faulted \/ k > 0)
F(ok) == IF ok THEN 0 ELSE 1

\* The remote document is replaced by a new version between invocations.
EditContent(n, c) ==
    /\ pc = "idle"
    /\ runs > 0 /\ edits < MaxEdits
    /\ content[n] # Absent
    /\ c.ver = content[n].ver + 1
    /\ content' = [content EXCEPT ![n] = c]
    /\ edits' = edits + 1
    /\ UNCHANGED <<durable, localFile, indexed, env, mainv, search_index, other, auxv, fv, pc, runv, counters,
                   expired, docv, pagev, skipped, pageLog>>

\* Start of an invocation up to the document loop: --reset-tracking, the fetch
\* of the documents and the load of last_files.json.
StartInvocation(drv, a, names, oks, capped) ==
    /\ pc = "idle"
    /\ capped => runs < MaxRuns
    /\ runs' = IF capped THEN runs + 1 ELSE runs
    /\ \E saveOk \in oks, loadOk \in oks :
         LET reset == drv = "cli" /\ a.reset_tracking
             file1 == IF reset THEN save_last_files_json(localFile, EmptyMap, saveOk) ELSE localFile
         IN /\ (~reset => saveOk)
            /\ (drv # "cli" => loadOk)
            /\ localFile' = file1
            /\ last_files_data' = IF drv = "cli" THEN load_last_files_json(file1, loadOk) ELSE EmptyMap
            /\ faults + F(saveOk) + F(loadOk) <= MaxFaults
            /\ faults' = faults + F(saveOk) + F(loadOk)
            /\ faulted' = ~(saveOk /\ loadOk)
    /\ driver' = drv
    /\ args' = a
    /\ documents' = [i \in DOMAIN names |->
                        [name |-> names[i], content |-> content[names[i]],
                         hash |-> get_document_hash(content[names[i]])]]
    /\ pages_processed' = 0
    /\ documents_processed' = 0
    /\ tally' = NoTally
    /\ expired' = FALSE
    /\ docIdx' = 1
    /\ skipped' = {}
    /\ pageLog' = NoLog
    /\ pc' = "doc"
    /\ exit_code' = <<>>
    /\ summary' = FALSE
    /\ interrupted' = FALSE
    /\ UNCHANGED <<content, durable, indexed, search_index, table_client, max_pages_per_execution,
                   edits, other, auxv, last_processed_page, is_completed,
                   total_pages, last_processed_from_json, dRead, pagev>>

\* The wall clock passes processing_timeout_minutes; seen at the next budget check.
Tick ==
    /\ pc \in {"doc", "page"}
    /\ ~expired
    /\ expired' = TRUE
    /\ UNCHANGED <<stores, env, mainv, search_index, edits, other, auxv, fv, pc, runv, counters, docv, pagev, skipped, pageLog>>

\* variant: the page budget is tested with > for >=
BudgetExhausted_off_by_one == expired \/ pages_processed > max_pages_per_execution

\* variant: only the deadline is tested
BudgetExhausted_time_only == expired

\* variant: only the page count is tested
BudgetExhausted_pages_only == pages_processed >= max_pages_per_execution

\* datetime.now() >= timeout_time, pages_processed >= max_pages_per_execution
BudgetExhausted == expired \/ pages_processed >= max_pages_per_execution

\* for doc_info in documents: exhausted list, or one of the two breaks
DocLoopExit ==
    /\ pc = "doc"
    /\ docIdx > Len(documents) \/ BudgetExhausted
    /\ pc' = "report"
    /\ UNCHANGED <<stores, env, mainv, search_index, edits, other, auxv, fv, runv, counters, expired, docv, pagev, skipped, pageLog>>

\* variant: leaving a document ends the document loop
NextDocument_or_stop == docIdx' = docIdx + 1 /\ pc' = "report"

NextDocument == docIdx' = docIdx + 1 /\ pc' = "doc"

\* process_documents: state lookup, page count, merge with the local checkpoint,
\* skip or upsert, entry into the page loop; the three calls end as given.
BeginDocumentCliWith(getOk, openOk, upsertOk) ==
    /\ pc = "doc" /\ driver = "cli"
    /\ docIdx <= Len(documents) /\ ~BudgetExhausted
    /\ LET st == IF table_client THEN get_processing_state(durable, doc_name, doc_hash, getOk)
                 ELSE <<0, FALSE>>
           total == doc_info.content.pages
           fromJson == MapGet(last_files_data, doc_name)
           resume == EffectiveResume(st[1], fromJson)
       IN /\ dRead' = st[1]
          /\ is_completed' = st[2]
          /\ IF ~openOk
             THEN /\ NextDocument
                  /\ UNCHANGED <<durable, last_processed_page, total_pages,
                                 last_processed_from_json, page_idx>>
             ELSE /\ total_pages' = total
                  /\ last_processed_from_json' = fromJson
                  /\ last_processed_page' = resume
                  /\ IF resume >= total
                     THEN NextDocument /\ UNCHANGED <<durable, page_idx>>
                     ELSE /\ durable' = IF table_client
                                        THEN update_processing_state(durable, doc_name, doc_hash,
                                                 resume, total, "processing", upsertOk)
                                        ELSE durable
                          /\ page_idx' = resume
                          /\ pc' = "page"
                          /\ UNCHANGED docIdx
    /\ tally' = IF pc' = "page" THEN [tally EXCEPT !.entered = @ + 1] ELSE tally
    /\ skipped' = {}
    /\ pageLog' = NoLog
    /\ UNCHANGED <<content, localFile, indexed, env, search_index, edits, other, auxv, runv, pages_processed,
                   documents_processed, expired, embedding_vector, document_id, attempt, retry_delay>>

\* the calls a document's entry makes: the upsert only when the page loop is entered
BeginDocumentCli(oks) ==
    /\ pc = "doc" /\ driver = "cli" /\ docIdx <= Len(documents)
    /\ \E getOk \in oks, openOk \in oks, upsertOk \in oks :
         LET st == IF table_client THEN get_processing_state(durable, doc_name, doc_hash, getOk)
                   ELSE <<0, FALSE>>
             enters == openOk /\ EffectiveResume(st[1], MapGet(last_files_data, doc_name))
                                   < doc_info.content.pages
         IN /\ (~table_client => getOk)
            /\ (~(table_client /\ enters) => upsertOk)
            /\ Failures(F(getOk) + F(openOk) + F(upsertOk))
            /\ BeginDocumentCliWith(getOk, openOk, upsertOk)
    /\ UNCHANGED mainv

\* time_trigg_func: state lookup, skip when completed, page count, upsert, page loop.
BeginDocumentTimer(oks) ==
    /\ pc = "doc" /\ driver = "timer"
    /\ docIdx <= Len(documents) /\ ~BudgetExhausted
    /\ \E getOk \in oks, openOk \in oks, upsertOk \in oks :
         LET st == IF table_client THEN get_processing_state(durable, doc_name, doc_hash, getOk)
                   ELSE <<0, FALSE>>
             total == doc_info.content.pages
             enters == ~st[2] /\ openOk
         IN /\ (~table_client => getOk)
            /\ (st[2] => openOk)
            /\ (~(table_client /\ enters) => upsertOk)
            /\ Failures(F(getOk) + F(openOk) + F(upsertOk))
            /\ dRead' = st[1]
            /\ is_completed' = st[2]
            /\ last_processed_page' = st[1]
            /\ IF ~enters
               THEN NextDocument /\ UNCHANGED <<durable, total_pages, page_idx>>
               ELSE /\ total_pages' = total
                    /\ durable' = IF table_client
                                  THEN update_processing_state(durable, doc_name, doc_hash,
                                           st[1], total, "processing", upsertOk)
                                  ELSE durable
                    /\ page_idx' = st[1]
                    /\ pc' = "page"
                    /\ UNCHANGED docIdx
    /\ tally' = IF pc' = "page" THEN [tally EXCEPT !.entered = @ + 1] ELSE tally
    /\ skipped' = {}
    /\ pageLog' = NoLog
    /\ UNCHANGED <<content, localFile, indexed, env, mainv, search_index, edits, other, auxv, runv, pages_processed,
                   documents_processed, expired, last_processed_from_json, embedding_vector, document_id, attempt,
                   retry_delay>>

\* variant: a document whose page loop stopped on the budget is not counted
PageLoopExit_uncounted_break ==
    /\ pc = "page"
    /\ page_idx >= total_pages \/ BudgetExhausted
    /\ documents_processed' = IF page_idx >= total_pages THEN documents_processed + 1
                               ELSE documents_processed
    /\ NextDocument
    /\ skipped' = {}
    /\ pageLog' = NoLog
    /\ UNCHANGED <<stores, env, mainv, search_index, edits, other, auxv, fv, runv, pages_processed, tally, expired, last_processed_page,
                   is_completed, total_pages, last_processed_from_json, dRead, pagev>>

\* for page_idx in range(last_processed_page, total_pages): exhausted range, or
\* one of the two breaks; then documents_processed += 1.
PageLoopExit ==
    /\ pc = "page"
    /\ page_idx >= total_pages \/ BudgetExhausted
    /\ documents_processed' = documents_processed + 1
    /\ NextDocument
    /\ skipped' = {}
    /\ pageLog' = NoLog
    /\ UNCHANGED <<stores, env, mainv, search_index, edits, other, auxv, fv, runv, pages_processed, tally, expired, last_processed_page,
                   is_completed, total_pages, last_processed_from_json, dRead, pagev>>

BeginPage ==
    /\ pc = "page"
    /\ page_idx < total_pages /\ ~BudgetExhausted
    /\ pc' = "render"
    /\ pageLog' = NoLog
    /\ embedding_vector' = FALSE
    /\ document_id' = NoId
    /\ attempt' = 0
    /\ retry_delay' = initial_retry_delay
    /\ UNCHANGED <<stores, env, mainv, search_index, edits, other, auxv, fv, runv, counters, expired, docv, page_idx, skipped>>

\* except Exception / continue: the loop goes on with page_idx + 1
SkipPage(cause) ==
    /\ skipped' = skipped \cup {<<page_idx, cause>>}
    /\ page_idx' = page_idx + 1
    /\ pc' = "page"

\* variant: a page that fails to render ends the page loop of the document
Render_or_leave(oks) ==
    /\ pc = "render"
    /\ \E ok \in oks :
         /\ Failures(F(ok))
         /\ IF ok THEN pc' = "describe" /\ UNCHANGED <<page_idx, skipped>>
                  ELSE /\ skipped' = skipped \cup {<<page_idx, "render">>}
                       /\ page_idx' = total_pages
                       /\ pc' = "page"
    /\ UNCHANGED <<stores, env, mainv, search_index, edits, other, auxv, runv, counters, expired, docv, embedding_vector, document_id,
                   attempt, retry_delay, pageLog>>

\* pdf_doc[page_idx].get_pixmap(...)
Render(oks) ==
    /\ pc = "render"
    /\ \E ok \in oks :
         /\ Failures(F(ok))
         /\ IF ok THEN pc' = "describe" /\ UNCHANGED <<page_idx, skipped>>
                  ELSE SkipPage("render")
    /\ UNCHANGED <<stores, env, mainv, search_index, edits, other, auxv, runv, counters, expired, docv, embedding_vector, document_id,
                   attempt, retry_delay, pageLog>>

\* chat.completions.create(...) and deep_unicode_clean
Describe(oks) ==
    /\ pc = "describe"
    /\ \E ok \in oks :
         /\ Failures(F(ok))
         /\ IF ok THEN pc' = "embed" /\ UNCHANGED <<page_idx, skipped>>
                  ELSE SkipPage("describe")
    /\ UNCHANGED <<stores, env, mainv, search_index, edits, other, auxv, runv, counters, expired, docv, embedding_vector, document_id,
                   attempt, retry_delay, pageLog>>

\* the search index is keyed by id: a post of an id it holds replaces the entry
IndexUpsert(idx, id, name, page) ==
    {e \in idx : e.id # id} \cup {[id |-> id, name |-> name, page |-> page]}

\* document_id = str(uuid.uuid4()): a value that no entry of the index and no
\* overlapping invocation carries (the last of UUIDs once all of them are in use)
CliDocumentIds ==
    LET free == {u \in UUIDs : /\ \A e \in search_index : e.id # <<"uuid", u>>
                               /\ other.document_id # <<"uuid", u>>}
    IN IF free = {} THEN {<<"uuid", NumUuids>>}
       ELSE {<<"uuid", CHOOSE u \in free : \A v \in free : u <= v>>}
\* The document names the sanitizer is applied to, each with its spelling: the
\* names of the model's documents, two names that differ in a space and an
\* underscore, and the one-letter name U+00E4 (a with diaeresis).
DocNames == Names \cup {"a b", "a_b", "(U+00E4)"}
Spell(name) ==
    CASE name = "a b" -> <<"a", " ", "b">>
      [] name = "a_b" -> <<"a", "_", "b">>
      [] name = "(U+00E4)" -> <<"U+00E4">>
      [] OTHER -> <<name>>
\* the name with the given spelling
Spelled(chars) == CHOOSE name \in DocNames : Spell(name) = chars
AsciiChars == {"a", "b", " ", "_", "-", "="}
isalnum(c) == c \in {"a", "b", "U+00E4"}
\* unicodedata.normalize('NFKD', doc_name): U+00E4 is decomposed into the
\* letter and the combining diaeresis U+0308
RECURSIVE NFKD(_)
NFKD(chars) ==
    IF chars = <<>> THEN <<>>
    ELSE (IF Head(chars) = "U+00E4" THEN <<"a", "U+0308">> ELSE <<Head(chars)>>) \o NFKD(Tail(chars))
\* .encode('ascii', 'ignore').decode('ascii'): the characters outside ASCII are dropped
encode_ascii_ignore(chars) == SelectSeq(chars, LAMBDA c : c \in AsciiChars)
\* ''.join(c if c.isalnum() or c in ['_', '-', '='] else '_' for c in ...)
sanitized_doc_name(name) ==
    LET ascii == encode_ascii_ignore(NFKD(Spell(name)))
    IN  Spelled([i \in DOMAIN ascii |->
                    IF isalnum(ascii[i]) \/ ascii[i] \in {"_", "-", "="} THEN ascii[i] ELSE "_"])
\* document_id = f"{sanitized_doc_name}_page{page_idx + 1}_image"
TimerDocumentId(name, p) == <<sanitized_doc_name(name), p + 1>>

\* variant: a page whose embedding failed is skipped
Embed_or_skip(oks) ==
    /\ pc = "embed"
    /\ \E ok \in oks :
         /\ Failures(F(ok))
         /\ embedding_vector' = ok
         /\ IF ok
            THEN /\ document_id' \in IF driver = "cli" THEN CliDocumentIds
                                     ELSE {TimerDocumentId(doc_name, page_idx)}
                 /\ pc' = "publish"
                 /\ UNCHANGED <<page_idx, skipped>>
            ELSE SkipPage("embed") /\ UNCHANGED document_id
    /\ UNCHANGED <<stores, env, mainv, search_index, edits, other, auxv, runv, counters, expired, docv, attempt,
                   retry_delay, pageLog>>

\* embeddings.create(...), then the id and the payload
Embed(oks) ==
    /\ pc = "embed"
    /\ \E ok \in oks :
         /\ Failures(F(ok))
         /\ embedding_vector' = ok
    /\ document_id' \in IF driver = "cli" THEN CliDocumentIds
                        ELSE {TimerDocumentId(doc_name, page_idx)}
    /\ pc' = "publish"
    /\ UNCHANGED <<stores, env, mainv, search_index, edits, other, auxv, runv, counters, expired, docv, page_idx, attempt, retry_delay,
                   skipped, pageLog>>

\* variant: the id is generated anew inside the retry loop
Posted_fresh_id == [pageLog EXCEPT !.posts = @ \cup {<<"uuid", NumUuids + attempt>>}]

\* the post carries document_id
Posted == [pageLog EXCEPT !.posts = @ \cup {document_id}]

\* one pass of `for attempt in range(max_retries)`: requests.post(...)
PublishCli(oks) ==
    /\ pc = "publish" /\ driver = "cli" /\ ~args.dry_run
    /\ \E ok \in oks, raised \in BOOLEAN :
         /\ ok => ~raised
         /\ Failures(F(ok))
         /\ IF ok
            THEN /\ indexed' = indexed \cup {<<doc_name, page_idx>>}
                 /\ search_index' = IndexUpsert(search_index, document_id, doc_name, page_idx)
                 /\ pages_processed' = pages_processed + 1
                 /\ pageLog' = [Posted EXCEPT !.ok200 = @ + 1, !.counted = @ + 1]
                 /\ pc' = "advance"
                 /\ UNCHANGED <<attempt, retry_delay, page_idx, skipped>>
            ELSE /\ pageLog' = [Posted EXCEPT !.sleeps = IF ~raised /\ attempt < max_retries - 1
                                                         THEN Append(@, retry_delay) ELSE @]
                 /\ attempt' = attempt + 1
                 /\ retry_delay' = IF ~raised /\ attempt < max_retries - 1
                                   THEN retry_delay * 2 ELSE retry_delay
                 /\ IF attempt + 1 < max_retries
                    THEN UNCHANGED <<pc, page_idx, skipped>>
                    ELSE SkipPage("publish")
                 /\ UNCHANGED <<indexed, search_index, pages_processed>>
    /\ UNCHANGED <<content, durable, localFile, env, mainv, edits, other, auxv, runv, documents_processed, tally, expired, docv,
                   embedding_vector, document_id>>

\* if not args.dry_run ... else: the page is counted and checkpointed without a post
DryRunPage(oks) ==
    /\ pc = "publish" /\ driver = "cli" /\ args.dry_run
    /\ pages_processed' = pages_processed + 1
    /\ \E loadOk \in oks, saveOk \in oks :
         /\ Failures(F(loadOk) + F(saveOk))
         /\ localFile' = update_file_progress(localFile, doc_name, page_idx + 1, loadOk, saveOk)
    /\ pageLog' = [pageLog EXCEPT !.writes = @ + 1, !.counted = @ + 1]
    /\ tally' = [tally EXCEPT !.advances = @ + 1]
    /\ page_idx' = page_idx + 1
    /\ pc' = "page"
    /\ UNCHANGED <<content, durable, indexed, env, mainv, search_index, edits, other, auxv, runv, documents_processed, expired, docv,
                   embedding_vector, document_id, attempt, retry_delay, skipped>>

\* requests.post(...) of the timer driver: one attempt
PublishTimer(oks) ==
    /\ pc = "publish" /\ driver = "timer"
    /\ \E ok \in oks :
         /\ Failures(F(ok))
         /\ IF ok
            THEN /\ indexed' = indexed \cup {<<doc_name, page_idx>>}
                 /\ search_index' = IndexUpsert(search_index, document_id, doc_name, page_idx)
                 /\ pages_processed' = pages_processed + 1
                 /\ pageLog' = [Posted EXCEPT !.ok200 = @ + 1, !.counted = @ + 1]
                 /\ pc' = "advance"
                 /\ UNCHANGED <<page_idx, skipped>>
            ELSE /\ pageLog' = Posted
                 /\ SkipPage("publish")
                 /\ UNCHANGED <<indexed, search_index, pages_processed>>
    /\ UNCHANGED <<content, durable, localFile, env, mainv, edits, other, auxv, runv, documents_processed, tally, expired, docv,
                   embedding_vector, document_id, attempt, retry_delay>>

\* if clients['table_client']: update_processing_state(..., page_idx + 1, total_pages, status)
AdvanceDurable(oks) ==
    /\ pc = "advance"
    /\ \E upsertOk \in oks :
         /\ ~table_client => upsertOk
         /\ Failures(F(upsertOk))
         /\ durable' = IF table_client
                       THEN update_processing_state(durable, doc_name, doc_hash, page_idx + 1,
                                total_pages, AdvanceStatus(page_idx, total_pages), upsertOk)
                       ELSE durable
    /\ pageLog' = IF table_client THEN [pageLog EXCEPT !.upserts = @ + 1] ELSE pageLog
    /\ IF driver = "cli"
       THEN pc' = "checkpoint" /\ UNCHANGED <<page_idx, tally>>
       ELSE /\ pc' = "page" /\ page_idx' = page_idx + 1
            /\ tally' = IF table_client THEN [tally EXCEPT !.advances = @ + 1] ELSE tally
    /\ UNCHANGED <<content, localFile, indexed, env, mainv, search_index, edits, other, auxv, runv, pages_processed,
                   documents_processed, expired, docv,
                   embedding_vector, document_id, attempt, retry_delay, skipped>>

\* update_file_progress(doc_name, page_idx + 1); break
AdvanceLocal(oks) ==
    /\ pc = "checkpoint"
    /\ \E loadOk \in oks, saveOk \in oks :
         /\ Failures(F(loadOk) + F(saveOk))
         /\ localFile' = update_file_progress(localFile, doc_name, page_idx + 1, loadOk, saveOk)
    /\ pageLog' = [pageLog EXCEPT !.writes = @ + 1]
    /\ tally' = [tally EXCEPT !.advances = @ + 1]
    /\ page_idx' = page_idx + 1
    /\ pc' = "page"
    /\ UNCHANGED <<content, durable, indexed, env, mainv, search_index, edits, other, auxv, runv, pages_processed,
                   documents_processed, expired, docv,
                   embedding_vector, document_id, attempt, retry_delay, skipped>>

\* the final summary; the invocation returns, and main() returns 0
Report ==
    /\ pc = "report"
    /\ pc' = "idle"
    /\ driver' = "cli"
    /\ args' = NoArgs
    /\ documents' = <<>>
    /\ last_files_data' = EmptyMap
    /\ pages_processed' = 0
    /\ documents_processed' = 0
    /\ tally' = NoTally
    /\ expired' = FALSE
    /\ docIdx' = 1
    /\ last_processed_page' = 0
    /\ is_completed' = FALSE
    /\ total_pages' = 0
    /\ last_processed_from_json' = 0
    /\ dRead' = 0
    /\ page_idx' = 0
    /\ embedding_vector' = FALSE
    /\ document_id' = NoId
    /\ attempt' = 0
    /\ retry_delay' = initial_retry_delay
    /\ faulted' = FALSE
    /\ skipped' = {}
    /\ pageLog' = NoLog
    /\ summary' = TRUE
    /\ exit_code' = IF driver = "cli" THEN <<0>> ELSE <<>>
    /\ UNCHANGED <<stores, env, search_index, edits, other, auxv, faults, interrupted>>

\* The invocation ends without its final summary: the exception leaves
\* process_documents and main() returns `code`, or the process is gone.
Abort(code) ==
    /\ pc' = "idle"
    /\ driver' = "cli"
    /\ args' = NoArgs
    /\ documents' = <<>>
    /\ last_files_data' = EmptyMap
    /\ pages_processed' = 0
    /\ documents_processed' = 0
    /\ tally' = NoTally
    /\ expired' = FALSE
    /\ docIdx' = 1
    /\ last_processed_page' = 0
    /\ is_completed' = FALSE
    /\ total_pages' = 0
    /\ last_processed_from_json' = 0
    /\ dRead' = 0
    /\ page_idx' = 0
    /\ embedding_vector' = FALSE
    /\ document_id' = NoId
    /\ attempt' = 0
    /\ retry_delay' = initial_retry_delay
    /\ faulted' = FALSE
    /\ skipped' = {}
    /\ pageLog' = NoLog
    /\ summary' = FALSE
    /\ exit_code' = code
    /\ UNCHANGED <<stores, env, search_index, edits, other, auxv, faults>>

\* load_environment() raises ValueError on a missing variable: main() logs the
\* critical error and returns 1; process_documents is not called.
MissingConfig ==
    /\ pc = "idle"
    /\ exit_code' = <<1>>
    /\ summary' = FALSE
    /\ interrupted' = FALSE
    /\ UNCHANGED <<stores, env, search_index, edits, other, auxv, fv, pc, runv, counters, expired, docv, pagev,
                   skipped, pageLog>>

\* initialize_azure_clients() raises at the head of process_documents: the
\* exception reaches main(), which returns 1.
InitClientsFail ==
    /\ pc = "idle"
    /\ runs < MaxRuns
    /\ runs' = runs + 1
    /\ exit_code' = <<1>>
    /\ summary' = FALSE
    /\ interrupted' = FALSE
    /\ UNCHANGED <<stores, table_client, max_pages_per_execution, search_index, edits, other, auxv, fv, pc, runv,
                   counters, expired, docv, pagev, skipped, pageLog>>

\* KeyboardInterrupt in the CLI driver: no `except Exception` catches it, it
\* leaves process_documents and main() returns 1.
Interrupt ==
    /\ pc # "idle" /\ driver = "cli"
    /\ interrupted' = TRUE
    /\ Abort(<<1>>)

\* KeyboardInterrupt while table_client.get_entity runs: the bare `except:` of
\* get_processing_state catches it and returns (0, False); the run goes on.
InterruptInLookup ==
    /\ table_client
    /\ interrupted' = TRUE
    /\ BeginDocumentCliWith(FALSE, TRUE, TRUE)
    /\ UNCHANGED <<exit_code, summary, fv>>

\* The process of the running invocation is killed: nothing more is executed.
Kill ==
    /\ pc # "idle"
    /\ Abort(<<>>)
    /\ UNCHANGED interrupted

\* An exception in the document loop outside the per-document and per-page
\* handlers: `except Exception` around the loop counts it; the summary follows.
MainLoopError ==
    /\ pc \in {"doc", "page"}
    /\ Failures(1)
    /\ pc' = "report"
    /\ UNCHANGED <<stores, env, mainv, search_index, edits, other, auxv, runv, counters, expired, docv, pagev,
                   skipped, pageLog>>

\* Two invocations overlap (a timer firing while the previous run, or a CLI
\* run, is still at work): the scheduler passes from one to the other between
\* two steps. Each keeps its own local variables; the stores are shared.
Switch ==
    /\ other' = Locals
    /\ pc' = other.pc
    /\ driver' = other.driver
    /\ args' = other.args
    /\ documents' = other.documents
    /\ last_files_data' = other.last_files_data
    /\ pages_processed' = other.pages_processed
    /\ documents_processed' = other.documents_processed
    /\ tally' = other.tally
    /\ expired' = other.expired
    /\ docIdx' = other.docIdx
    /\ last_processed_page' = other.last_processed_page
    /\ is_completed' = other.is_completed
    /\ total_pages' = other.total_pages
    /\ last_processed_from_json' = other.last_processed_from_json
    /\ dRead' = other.dRead
    /\ page_idx' = other.page_idx
    /\ embedding_vector' = other.embedding_vector
    /\ document_id' = other.document_id
    /\ attempt' = other.attempt
    /\ retry_delay' = other.retry_delay
    /\ skipped' = other.skipped
    /\ pageLog' = other.pageLog
    /\ UNCHANGED <<stores, env, mainv, search_index, edits, auxv, fv>>

Step(oks) ==
    \/ DocLoopExit
    \/ BeginDocumentCli(oks)
    \/ BeginDocumentTimer(oks)
    \/ PageLoopExit
    \/ BeginPage
    \/ Render(oks)
    \/ Describe(oks)
    \/ Embed(oks)
    \/ PublishCli(oks)
    \/ PublishTimer(oks)
    \/ AdvanceDurable(oks)
    \/ AdvanceLocal(oks)
    \/ Report

Next ==
    \/ \E n \in Names, c \in Contents : EditContent(n, c)
    \/ \E drv \in Drivers : \E a \in ArgsOf(drv), names \in DocLists(Present) :
          StartInvocation(drv, a, names, BOOLEAN, TRUE)
    \/ Tick
    \/ DryRunPage(BOOLEAN)
    \/ Step(BOOLEAN)

Spec == Init /\ [][Next]_vars

\* Runs in which no external call fails: every document of the remote store is
\* fetched, the state table is configured, publishing is on, the contents stay
\* as they are, and the deadline passes only once the invocation has processed
\* a page. Invocations follow one another without bound.
InitLive == InitWith(Names, {TRUE})

TickAfterWork == pages_processed > 0 /\ Tick

NextLive ==
    \/ \E drv \in Drivers : \E a \in ArgsOf(drv), names \in FullDocLists(Present) :
          ~a.dry_run /\ StartInvocation(drv, a, names, {TRUE}, FALSE)
    \/ TickAfterWork
    \/ Step({TRUE})

SpecLive == InitLive /\ [][NextLive]_vars /\ WF_vars(NextLive)

\* main() as a whole, with no failure of the external calls of the pipeline:
\* startup failures, user interrupts and an exception in the document loop.
NextMain ==
    \/ \E drv \in Drivers : \E a \in ArgsOf(drv), names \in DocLists(Present) :
          StartInvocation(drv, a, names, {TRUE}, TRUE)
    \/ MissingConfig
    \/ InitClientsFail
    \/ Interrupt
    \/ InterruptInLookup
    \/ MainLoopError
    \/ Tick
    \/ DryRunPage({TRUE})
    \/ Step({TRUE})

SpecMain == Init /\ [][NextMain]_vars

\* Crash and restart: an invocation may be killed between any two steps; no
\* external call fails, the contents stay as they are, publishing is on and
\* last_files.json is not reset. Without a state table only the CLI driver keeps
\* progress, so only the CLI driver runs then.
NextCrash ==
    \/ \E drv \in Drivers : \E a \in ArgsOf(drv), names \in DocLists(Present) :
          /\ ~a.dry_run /\ ~a.reset_tracking
          /\ table_client \/ drv = "cli"
          /\ StartInvocation(drv, a, names, {TRUE}, TRUE)
    \/ Kill
    \/ Tick
    \/ Step({TRUE})

SpecCrash == Init /\ [][NextCrash]_vars

\* Overlapping invocations: a second invocation may start while the first is
\* running; no external call fails, publishing is on, last_files.json is not
\* reset, and every invocation fetches the document.
NextOverlap ==
    \/ \E drv \in Drivers : \E a \in ArgsOf(drv), names \in FullDocLists(Present) :
          /\ ~a.dry_run /\ ~a.reset_tracking
          /\ StartInvocation(drv, a, names, {TRUE}, TRUE)
    \/ Switch
    \/ Step({TRUE})

SpecOverlap == Init /\ [][NextOverlap]_vars

\* One invocation over two documents, both fetched, with every failure of the
\* external calls and every page budget from 0 on.
InitDocs == InitBudgets(Names, BOOLEAN, 0..MaxBudget)

NextDocs ==
    \/ \E drv \in Drivers : \E a \in ArgsOf(drv), names \in FullDocLists(Present) :
          /\ runs = 0 /\ ~a.reset_tracking
          /\ StartInvocation(drv, a, names, BOOLEAN, TRUE)
    \/ Tick
    \/ DryRunPage(BOOLEAN)
    \/ Step(BOOLEAN)

SpecDocs == InitDocs /\ [][NextDocs]_vars

\* Two documents in the remote store, every one of them fetched; of the external
\* calls only the reads and writes of last_files.json may fail.
InitTwo == InitWith(Names, BOOLEAN)

NextTwo ==
    \/ \E drv \in Drivers : \E a \in ArgsOf(drv), names \in FullDocLists(Present) :
          StartInvocation(drv, a, names, BOOLEAN, TRUE)
    \/ DocLoopExit
    \/ BeginDocumentCli({TRUE})
    \/ BeginDocumentTimer({TRUE})
    \/ PageLoopExit
    \/ BeginPage
    \/ Render({TRUE})
    \/ Describe({TRUE})
    \/ Embed({TRUE})
    \/ PublishCli({TRUE})
    \/ PublishTimer({TRUE})
    \/ DryRunPage(BOOLEAN)
    \/ AdvanceDurable({TRUE})
    \/ AdvanceLocal(BOOLEAN)
    \/ Report

SpecTwo == InitTwo /\ [][NextTwo]_vars

\* ------------------------------------------------------------------ claims

\* the step of the document loop that handled documents[docIdx]
BeganDocument == pc = "doc" /\ (pc' = "page" \/ docIdx' = docIdx + 1)
\* no external call failed in the step
NoFaultInStep == faults' = faults
\* max(durable.lastProcessedPage, localMap[n])
EffectiveResumePoint(table, file, n) == Max(table[n].last_processed_page, MapGet(file, n))

\* C1: once the Describer has failed on page p of a document in a pass of the
\* page loop (the only call to fail, later pages being published), no later
\* write of that pass moves the document's durable lastProcessedPage or its
\* local checkpoint to a value past p.
C1_FaultIsolation ==
    [][\A e \in skipped : (e[2] = "describe" /\ ~args.dry_run /\ faults' = 1) =>
          /\ durable'[doc_name] # durable[doc_name]
                => durable'[doc_name].last_processed_page <= e[1]
          /\ MapGet(localFile', doc_name) # MapGet(localFile, doc_name)
                => MapGet(localFile', doc_name) <= e[1]]_vars

\* the durable record of the document at hand is completed under another hash
StaleCompleted ==
    /\ table_client
    /\ durable[doc_name].status = "completed"
    /\ durable[doc_name].doc_hash # doc_hash

\* C2: a document whose durable record is completed under a different
\* contentHash enters the page loop at page 0, whatever lastProcessedPage the
\* record and the local checkpoint hold (stated for behaviours in which no
\* external call has failed).
C2_HashChangeRestarts ==
    [][(BeganDocument /\ StaleCompleted /\ faults' = 0)
          => (pc' = "page" /\ page_idx' = 0)]_vars

\* C3: a page is never marked done without having been indexed: whenever a step
\* of an invocation that is not a dry run raises a document's effective resume
\* point from r to r2, every page p with r <= p < r2 of it is in the index
\* (stated for behaviours in which at most one external call has failed).
C3_DoneImpliesIndexed ==
    [][\A n \in Names :
          LET r == EffectiveResumePoint(durable, localFile, n)
              r2 == EffectiveResumePoint(durable', localFile', n)
          IN (~args.dry_run /\ faults' <= 1 /\ r2 > r) => \A p \in r..(r2 - 1) : <<n, p>> \in indexed']_vars

\* C10: every durable progress record has lastProcessedPage <= totalPages
\* (stated for behaviours in which no external call has failed).
C10_LastWithinTotal ==
    \A n \in Names :
        (faults = 0 /\ durable[n] # NoRec)
            => durable[n].last_processed_page <= durable[n].total_pages

\* the durable record of the document at hand is completed under its hash
FreshCompleted ==
    /\ table_client
    /\ durable[doc_name].status = "completed"
    /\ durable[doc_name].doc_hash = doc_hash

\* every document of the remote store is completed under its current content
AllCompleted ==
    \A n \in Present :
        /\ durable[n].status = "completed"
        /\ durable[n].doc_hash = get_document_hash(content[n])
        /\ EffectiveResumePoint(durable, localFile, n) = content[n].pages

\* C4: starting from empty progress stores, with the state table configured and
\* no call failing, repeated invocations with a page budget >= 1 eventually
\* leave every document D with max(durable.lastProcessedPage, localMap[D]) = N
\* and a durable record with status completed, and it stays so.
C4_Completion == <>[]AllCompleted

\* C4 witness: all documents are completed although some document has more
\* pages than one invocation's budget.
C4_Witness ==
    /\ pc = "idle" /\ AllCompleted
    /\ \E n \in Present : content[n].pages > max_pages_per_execution

\* C5: a document whose durable record, as returned by the lookup, is completed
\* under the same contentHash is passed over: the page loop is not entered, no
\* page is counted or published, and neither progress store changes.
C5_Idempotence ==
    [][(BeganDocument /\ FreshCompleted /\ NoFaultInStep)
          => /\ pc' = "doc" /\ docIdx' = docIdx + 1
             /\ durable' = durable /\ localFile' = localFile /\ indexed' = indexed
             /\ pages_processed' = pages_processed]_vars

\* C5 witness: the lookup reported the document completed and the loop moved on
\* to the next document with no page processed.
C5_Witness ==
    /\ pc = "doc" /\ docIdx = 2 /\ is_completed /\ pages_processed = 0
    /\ durable[documents[1].name].status = "completed"
    /\ durable[documents[1].name].doc_hash = documents[1].hash

\* C6: the page loop of a document starts at max(d, l): d the lastProcessedPage
\* the lookup returned (the record's value, 0 when there is no record, no table
\* or the lookup failed), l the value of the checkpoint map loaded at the start
\* of the run (0 when absent, and for the timer driver, which keeps none).
C6_ResumeAtMax ==
    [][(pc = "doc" /\ pc' = "page")
          => /\ page_idx' = Max(dRead', MapGet(last_files_data, doc_name))
             /\ dRead' \in {0, durable[doc_name].last_processed_page}
             /\ NoFaultInStep =>
                   dRead' = IF table_client THEN durable[doc_name].last_processed_page ELSE 0]_vars

\* C6 witness: the record says d, the loaded map says l > d, and the loop
\* stands at its first page l.
C6_Witness ==
    /\ driver = "cli" /\ pc = "page" /\ table_client
    /\ durable[doc_name] # NoRec
    /\ dRead < last_processed_from_json
    /\ page_idx = last_processed_from_json
    /\ last_processed_page = last_processed_from_json

\* C7: an invocation of either driver with the state table, no dry run, no
\* failed call and no timeout, given one document with more than max_pages
\* pages left from its resume point r, ends with exactly max_pages pages counted
\* and published (the pages r .. r+max_pages-1), the durable record at
\* r+max_pages with status processing and, for the CLI driver, the local
\* checkpoint at r+max_pages.
C7_BudgetEnforcement ==
    (/\ pc = "report" /\ ~args.dry_run /\ table_client
     /\ ~faulted /\ ~expired /\ Len(documents) = 1
     /\ total_pages = documents[1].content.pages
     /\ total_pages - last_processed_page > max_pages_per_execution)
    => LET n == documents[1].name
           r == last_processed_page
           M == max_pages_per_execution
       IN /\ pages_processed = M
          /\ \A p \in r..(r + M - 1) : <<n, p>> \in indexed
          /\ durable[n] = [doc_hash |-> documents[1].hash, last_processed_page |-> r + M,
                           total_pages |-> total_pages, status |-> "processing"]
          /\ driver = "cli" => MapGet(localFile, n) = r + M

\* C7 witness: such an invocation has ended on its page budget.
C7_Witness ==
    /\ pc = "report" /\ driver = "cli" /\ ~args.dry_run /\ table_client
    /\ ~faulted /\ ~expired /\ Len(documents) = 1
    /\ total_pages = documents[1].content.pages
    /\ total_pages - last_processed_page > max_pages_per_execution
    /\ pages_processed = max_pages_per_execution
    /\ durable[documents[1].name].last_processed_page = page_idx
    /\ page_idx = last_processed_page + max_pages_per_execution
    /\ MapGet(localFile, documents[1].name) = page_idx

\* the page at hand has had a status-200 publish in the CLI driver
C8Inv ==
    (driver = "cli" /\ pageLog.ok200 > 0) =>
        /\ pc \in {"advance", "checkpoint", "page"}
        /\ pageLog.ok200 = 1 /\ pageLog.counted = 1
        /\ attempt < max_retries
        /\ Cardinality(pageLog.posts) = 1
        /\ pageLog.upserts <= 1 /\ pageLog.writes <= 1
        /\ pc = "page" => (pageLog.writes = 1 /\ (table_client => pageLog.upserts = 1))
\* the writes of the advance carry p + 1
C8Step ==
    (driver = "cli" /\ pc \in {"advance", "checkpoint"}) =>
        /\ pages_processed' = pages_processed
        /\ durable' # durable => (/\ pc = "advance"
                                  /\ durable'[doc_name].last_processed_page = page_idx + 1)
        /\ localFile' # localFile => (pc = "checkpoint" /\ localFile'[doc_name] = page_idx + 1)
        /\ NoFaultInStep =>
              /\ (pc = "advance" /\ table_client)
                    => durable'[doc_name].last_processed_page = page_idx + 1
              /\ pc = "checkpoint" => localFile' = MapPut(localFile, doc_name, page_idx + 1)

\* C8: when a publish of the CLI driver succeeds after k < 3 failed attempts,
\* the page is advanced exactly once (pages_processed + 1, one durable upsert
\* and one local checkpoint write, both carrying p + 1), no further attempt is
\* made for the page, and every attempt carried the same id.
C8_PublishRetry == []C8Inv /\ [][C8Step]_vars

\* C8 witness: two failed attempts, then a 200, and the advance is done.
C8_Witness ==
    /\ driver = "cli" /\ pc = "page" /\ pageLog.ok200 = 1 /\ attempt = 2
    /\ pageLog.writes = 1 /\ pageLog.upserts = 1
    /\ durable[doc_name].last_processed_page = page_idx
    /\ MapGet(localFile, doc_name) = page_idx

\* no post is made in a dry run
C9Inv ==
    (pc # "idle" /\ args.dry_run) =>
        /\ pageLog.posts = {} /\ pageLog.ok200 = 0
        /\ pc \notin {"advance", "checkpoint"}
\* the page that reaches the publish step is checkpointed at p + 1
C9Step ==
    /\ args.dry_run => indexed' = indexed
    /\ (args.dry_run /\ pc = "publish") =>
          /\ pc' = "page" /\ pages_processed' = pages_processed + 1
          /\ localFile' # localFile => localFile'[doc_name] = page_idx + 1
          /\ NoFaultInStep => localFile' = MapPut(localFile, doc_name, page_idx + 1)

\* C9: in a dry run no Publisher call occurs, and each page that reaches the
\* publish step has update_file_progress(name, p + 1) applied to the local
\* checkpoint, as after a successful publish.
C9_DryRun == []C9Inv /\ [][C9Step]_vars

\* C9 witness: a dry run has checkpointed a page that is not in the index.
C9_Witness ==
    /\ args.dry_run /\ pc = "page" /\ pageLog.writes = 1
    /\ page_idx > 0 /\ MapGet(localFile, doc_name) = page_idx
    /\ <<doc_name, page_idx - 1>> \notin indexed

\* C11: in every durable progress record, status = completed if and only if
\* lastProcessedPage = totalPages (stated for behaviours in which no external
\* call has failed).
C11_CompletedIffAllPages ==
    \A n \in Names :
        (faults = 0 /\ durable[n] # NoRec)
            => (durable[n].status = "completed"
                   <=> durable[n].last_processed_page = durable[n].total_pages)

\* last_files.json was written earlier in the running invocation and holds what
\* that write left: no call has failed so far and a page before the one at hand
\* was checkpointed
WroteBefore ==
    /\ driver = "cli" /\ faults = 0
    /\ \/ ~args.dry_run /\ pc = "checkpoint" /\ pages_processed >= 2
       \/ args.dry_run /\ pc = "publish" /\ pages_processed >= 1

\* C12: within one invocation, from one write of last_files.json to the next no
\* document's value decreases or disappears, whichever document the write is for.
C12_LocalMonotone ==
    [][WroteBefore =>
          \A n \in DOMAIN localFile :
              n \in DOMAIN localFile' /\ localFile'[n] >= localFile[n]]_vars

\* C13: in an invocation with --reset-tracking the page loop of every document
\* starts at page 0 (stated for behaviours in which no external call has failed).
C13_ResetStartsAtZero ==
    [][(BeganDocument /\ driver = "cli" /\ args.reset_tracking /\ faults' = 0)
          => (pc' = "page" /\ page_idx' = 0)]_vars

\* C14: the reset of --reset-tracking leaves last_files.json as the empty map
\* (as it was when the write fails) and changes no durable record.
C14_ResetFrame ==
    [][(pc = "idle" /\ pc' = "doc" /\ args'.reset_tracking)
          => /\ durable' = durable
             /\ localFile' \in {EmptyMap, localFile}
             /\ NoFaultInStep => localFile' = EmptyMap]_vars

\* C14 witness: a reset invocation stands at its document loop with an empty
\* last_files.json while the state table holds progress of a published page.
C14_Witness ==
    /\ pc = "doc" /\ docIdx = 1 /\ args.reset_tracking /\ ~faulted
    /\ localFile = EmptyMap
    /\ \E n \in Names : durable[n].last_processed_page > 0 /\ <<n, 0>> \in indexed

\* C15: main() has returned 0 only after process_documents returned (its final
\* summary logged), and a non-zero status whenever the user interrupted the
\* invocation (shown for invocations in which nothing else failed).
C15_ExitStatus ==
    pc = "idle" =>
        /\ exit_code = <<0>> => summary
        /\ (interrupted /\ faults = 0) => exit_code = <<1>>

\* process_documents, once entered, ends in the step
InvocationEnds == pc' = "idle" /\ (pc # "idle" \/ runs' # runs)

\* C16: every invocation of the driver that starts ends with the final summary
\* emitted, whichever way it ends.
C16_SummaryAlways == [][InvocationEnds => summary']_vars

\* C17: once all max_retries publish attempts for page p of a document have
\* failed in a pass of the CLI page loop (no other call failing), no later step
\* of that pass moves the document's effective resume point to a value past p,
\* even when later pages of the document are published.
C17_ExhaustedRetriesNotAdvanced ==
    [][\A e \in skipped : (e[2] = "publish" /\ driver = "cli" /\ faults' = max_retries) =>
          (EffectiveResumePoint(durable', localFile', doc_name)
               # EffectiveResumePoint(durable, localFile, doc_name)
             => EffectiveResumePoint(durable', localFile', doc_name) <= e[1])]_vars

\* the pages of the document at hand from page k on that are in the index
PublishedFrom(k) == {p \in k..(doc_info.content.pages - 1) : <<doc_name, p>> \in indexed}
\* every page of the document at hand below page k is in the index
AllPublishedBelow(k) == \A p \in 0..(k - 1) : <<doc_name, p>> \in indexed
\* the page loop never stands past a page that is not in the index
C18Inv ==
    pc \in {"page", "render", "describe", "embed", "publish", "advance", "checkpoint"}
        => AllPublishedBelow(page_idx)
\* where an invocation takes a document up: a document passed over has all its
\* pages in the index; a page loop starts at or below every unpublished page,
\* with at most one published page still ahead of it
C18Step ==
    BeganDocument =>
        IF pc' = "page"
        THEN /\ AllPublishedBelow(page_idx')
             /\ Cardinality(PublishedFrom(page_idx')) <= 1
        ELSE AllPublishedBelow(doc_info.content.pages)

\* C18: when invocations are killed at arbitrary points and nothing else fails,
\* the next invocation skips no page that was not published and has at most one
\* already published page of the document to publish again.
C18_CrashRecovery == []C18Inv /\ [][C18Step]_vars

\* C18 witness: an invocation starts the page loop at a page that an earlier,
\* killed invocation had published without recording the advance.
C18_Witness ==
    /\ pc = "page" /\ runs = 2 /\ ~BudgetExhausted
    /\ page_idx < total_pages
    /\ <<doc_name, page_idx>> \in indexed
    /\ EffectiveResumePoint(durable, localFile, doc_name) = page_idx

\* the step raises the durable lastProcessedPage or the local checkpoint of n
Advances(n) ==
    \/ durable'[n].last_processed_page > durable[n].last_processed_page
    \/ MapGet(localFile', n) > MapGet(localFile, n)

\* C19: in a non-dry run every step that raises a document's durable
\* lastProcessedPage or its local checkpoint is a write of the advance that
\* follows the status-200 publish of page p of that document in the same
\* invocation, and the value it writes is p + 1 (stated for behaviours in
\* which no external call has failed).
C19_AdvanceOncePerPublish ==
    [][(pc # "idle" /\ ~args.dry_run /\ faults' = 0) =>
          \A n \in Names : Advances(n) =>
              /\ n = doc_name
              /\ pc \in {"advance", "checkpoint"}
              /\ pageLog.ok200 = 1
              /\ <<n, page_idx>> \in indexed
              /\ durable'[n].last_processed_page \in {durable[n].last_processed_page, page_idx + 1}
              /\ MapGet(localFile', n) \in {MapGet(localFile, n), page_idx + 1}]_vars

\* C20: the index holds at most one entry per (document, page): a page that is
\* published again, in a later invocation, is published under the id it had.
C20_RepublishIdempotent ==
    \A e1, e2 \in search_index :
        (e1.name = e2.name /\ e1.page = e2.page) => e1.id = e2.id

\* the step lowers the durable lastProcessedPage or the local checkpoint of n
Lowers(n) ==
    \/ durable'[n].last_processed_page < durable[n].last_processed_page
    \/ MapGet(localFile', n) < MapGet(localFile, n)
\* the step publishes a page that is in the index already
PublishesAgain == pc = "publish" /\ pc' = "advance" /\ <<doc_name, page_idx>> \in indexed
\* the running invocation read the progress of its document before the stores
\* were advanced to what they hold now
StaleRead ==
    \/ dRead < durable[doc_name].last_processed_page
    \/ last_processed_from_json < MapGet(localFile, doc_name)

\* C21: a ledger write that lowers a document's durable lastProcessedPage or
\* its local checkpoint, and a second publish of a page, occur only through
\* overlap: never while a single invocation has run, and a lowering write is an
\* advance (of p + 1) by an invocation whose read of the progress state is stale.
\* (That such a state is reachable is what the witness shows.)
C21_OverlapCorrupts ==
    [][/\ runs' = 1 => (~PublishesAgain /\ \A n \in Names : ~Lowers(n))
       /\ \A n \in Names : Lowers(n) =>
              /\ pc \in {"advance", "checkpoint"} /\ n = doc_name /\ StaleRead
              /\ durable'[n].last_processed_page \in {durable[n].last_processed_page, page_idx + 1}
              /\ MapGet(localFile', n) \in {MapGet(localFile, n), page_idx + 1}]_vars

\* C21 witness: two invocations read the same progress of the document before
\* either advanced; the other has advanced it further, and the running one has
\* just published a page the other had published and written its lower
\* value over the other's.
C21_Witness ==
    /\ pc = "page" /\ other.pc = "page"
    /\ other.documents = documents
    /\ dRead = other.dRead /\ last_processed_page = other.last_processed_page
    /\ page_idx > last_processed_page /\ other.page_idx > page_idx
    /\ pageLog.ok200 = 1 /\ other.pageLog.ok200 = 1
    /\ table_client /\ pageLog.upserts = 1 /\ other.pageLog.upserts = 1
    /\ durable[doc_name].last_processed_page = page_idx
    /\ driver = "cli" => (pageLog.writes = 1 /\ MapGet(localFile, doc_name) = page_idx)
    /\ (driver = "cli" /\ other.driver = "cli") =>
          Cardinality({e \in search_index : e.name = doc_name /\ e.page = page_idx - 1}) = 2

\* the step publishes a page with status 200, or simulates it in a dry run
PagePublished ==
    /\ pc = "publish"
    /\ pc' = "advance" \/ (args.dry_run /\ pc' = "page")
\* the pages counted never exceed the budget
C22Inv == pages_processed <= max_pages_per_execution
\* pages_processed counts the pages published or simulated, of all documents,
\* and a page is published or simulated only below the budget
C22Step ==
    /\ PagePublished =>
          /\ pages_processed < max_pages_per_execution
          /\ pages_processed' = pages_processed + 1
    /\ (pc # "idle" /\ pc' # "idle" /\ ~PagePublished) => pages_processed' = pages_processed

\* C22: whatever calls fail, the number of pages an invocation publishes (or
\* simulates in a dry run), over all its documents, never exceeds
\* max_pages_per_execution, for every budget from 0 on.
C22_PageCap == []C22Inv /\ [][C22Step]_vars

\* C22 witness: the budget of 2 is used up by pages of two documents in an
\* invocation in which a call failed, with pages of the second document left.
C22_Witness ==
    /\ pc = "page" /\ docIdx = 2 /\ faulted
    /\ max_pages_per_execution = 2 /\ pages_processed = 2
    /\ page_idx = 1 /\ page_idx < total_pages
    /\ pageLog.counted = 1

\* the deadline has passed or the page cap is reached
BudgetReached == expired \/ pages_processed >= max_pages_per_execution
\* no page is being rendered, described, embedded or published past the budget
C23Inv == pc \in {"render", "describe", "embed", "publish"} => ~BudgetReached
\* a budget check that finds the budget reached only leaves the loop it is in:
\* no store is written, no page and no document is started, and the budget
\* stays reached for the checks that follow
C23Step ==
    (pc \in {"doc", "page"} /\ BudgetReached) =>
        /\ pc' \in {pc, "doc", "report"}
        /\ UNCHANGED <<stores, search_index, pages_processed, page_idx>>
        /\ BudgetReached'

\* C23: once the page cap or the timeout is reached at a check before a
\* document or before a page, the invocation starts no render, describe, embed,
\* publish or advance for any later page or document.
C23_BudgetStops == []C23Inv /\ [][C23Step]_vars

\* C23 witness: the page loop of the first document was left at a page
\* boundary with pages to go, and the check before the second document, of
\* which nothing is recorded, finds the budget reached.
C23_Witness ==
    /\ pc = "doc" /\ docIdx = 2 /\ Len(documents) = 2
    /\ BudgetReached /\ pages_processed > 0
    /\ page_idx < total_pages
    /\ durable[documents[2].name] = NoRec
    /\ \A p \in 0..MaxPages : <<documents[2].name, p>> \notin indexed

\* C24: in the advance of the CLI driver a failed durable upsert leaves the
\* record as it was and the local checkpoint is still written with p + 1; a
\* failed local write leaves the durable record as the upsert left it; either
\* way the loop goes on with page p + 1.
C24_DegradedAdvance ==
    [][/\ (driver = "cli" /\ pc = "advance") =>
             /\ pc' = "checkpoint" /\ page_idx' = page_idx
             /\ localFile' = localFile
             /\ IF NoFaultInStep
                THEN table_client => durable'[doc_name].last_processed_page = page_idx + 1
                ELSE durable' = durable
       /\ (driver = "cli" /\ pc = "checkpoint") =>
             /\ pc' = "page" /\ page_idx' = page_idx + 1
             /\ durable' = durable
             /\ NoFaultInStep => MapGet(localFile', doc_name) = page_idx + 1]_vars

\* C24 witness: the upsert of the advance of page 0 failed, the local
\* checkpoint holds 1 and the next page is being processed.
C24_Witness ==
    /\ driver = "cli" /\ table_client /\ ~args.dry_run
    /\ pc = "render" /\ page_idx = 1
    /\ <<doc_name, 0>> \in indexed
    /\ durable[doc_name].last_processed_page = 0
    /\ MapGet(localFile, doc_name) = 1

\* a failed lookup answers (0, False) and a failed read the empty map, whatever
\* the stores hold
C25Inv ==
    /\ \A n \in Names, c \in Contents :
          get_processing_state(durable, n, get_document_hash(c), FALSE) = <<0, FALSE>>
    /\ load_last_files_json(localFile, FALSE) = EmptyMap
\* the invocation goes on: a failed read of last_files.json at the start leaves
\* the driver with the empty map and the file as it is; a lookup that does not
\* return the record's page returned 0 and not completed, and the page loop
\* then starts from what the other store gives
C25Step ==
    /\ (pc = "idle" /\ pc' = "doc" /\ driver' = "cli" /\ ~args'.reset_tracking /\ ~NoFaultInStep)
          => (last_files_data' = EmptyMap /\ localFile' = localFile)
    /\ pc = "doc" => pc' \in {"doc", "page", "report"}
    /\ (BeganDocument /\ table_client /\ dRead' # durable[doc_name].last_processed_page) =>
          /\ dRead' = 0 /\ ~is_completed'
          /\ pc' = "page" =>
                page_idx' = (IF driver = "cli" THEN MapGet(last_files_data, doc_name) ELSE 0)

\* C25: a failed lookup of the durable record and a failed read of
\* last_files.json count as no progress from that store, (0, False) and the
\* empty map, and the invocation goes on.
C25_SafeDefaults == []C25Inv /\ [][C25Step]_vars

\* C25 witness: the only failure is the lookup of this timer invocation; the
\* record held page 1, and the page loop starts at page 0, which is in the index.
C25_Witness ==
    /\ driver = "timer" /\ table_client /\ runs = 2
    /\ faulted /\ faults = 1
    /\ pc = "page" /\ page_idx = 0 /\ dRead = 0
    /\ <<doc_name, 0>> \in indexed
    /\ durable[doc_name].last_processed_page = 0

\* what readState(name, hash) is to return on the table
ReadState(table, n, h) ==
    IF table[n] = NoRec
    THEN <<0, FALSE>>
    ELSE <<table[n].last_processed_page, table[n].doc_hash = h /\ table[n].status = "completed">>
\* the lookup agrees with it for every name and hash, on every table reached
C26Inv ==
    \A n \in Names, c \in Contents :
        get_processing_state(durable, n, get_document_hash(c), TRUE)
            = ReadState(durable, n, get_document_hash(c))
\* and so does what a driver holds after a lookup that did not fail
C26Step ==
    (BeganDocument /\ table_client /\ NoFaultInStep) =>
        <<dRead', is_completed'>> = ReadState(durable, doc_name, doc_hash)

\* C26: get_processing_state(name, hash) returns is_completed = True exactly when
\* a record of name exists with that hash and status completed; with a record
\* it returns the record's last_processed_page whether the hash matches or not,
\* and (0, False) without a record.
C26_ReadState == []C26Inv /\ [][C26Step]_vars

\* C26 witness: the record was completed under another hash; the lookup
\* returned its page and not completed.
C26_Witness ==
    /\ driver = "timer" /\ table_client /\ pc = "page"
    /\ runs = 2 /\ edits = 1 /\ faults = 0
    /\ doc_info.content.ver = 2
    /\ dRead > 0 /\ dRead = total_pages /\ page_idx = dRead
    /\ ~is_completed

\* the delays slept before attempts 2..k+1: 1, 2, ...
Backoff(k) == [i \in 1..k |-> initial_retry_delay * 2^(i - 1)]

\* C27: while the CLI driver is about to make a publish attempt for a page,
\* fewer than max_retries attempts have failed and each of them was followed
\* by its backoff sleep (1 second after the first, 2 seconds after the second),
\* whether it failed with a status or with an exception (stated for pages whose
\* failed attempts are the only failures so far).
C27_RetryBackoff ==
    (driver = "cli" /\ pc = "publish" /\ ~args.dry_run /\ faults = attempt) =>
        /\ attempt < max_retries
        /\ pageLog.sleeps = Backoff(attempt)

\* C28: the embedding step always hands the page on to the publish step, with
\* the vector when the Embedder answered and with the empty vector when it
\* failed; a page published with the empty vector is advanced to p + 1 in the
\* durable record and in the local checkpoint like any other.
C28_EmbedFailureProceeds ==
    [][/\ pc = "embed" =>
             /\ pc' = "publish" /\ page_idx' = page_idx
             /\ embedding_vector' <=> NoFaultInStep
             /\ UNCHANGED <<stores, search_index>>
       /\ (~embedding_vector /\ ~args.dry_run /\ NoFaultInStep) =>
             /\ pc = "publish" =>
                   (pc' = "advance" /\ <<doc_name, page_idx>> \in indexed')
             /\ (pc = "advance" /\ table_client) =>
                   /\ durable'[doc_name].last_processed_page = page_idx + 1
                   /\ durable'[doc_name].status = AdvanceStatus(page_idx, total_pages)
             /\ pc = "checkpoint" => MapGet(localFile', doc_name) = page_idx + 1]_vars

\* C28 witness: the Embedder failed for the page, the only failure; the page
\* was published with the empty vector and both stores hold p + 1.
C28_Witness ==
    /\ driver = "cli" /\ table_client /\ ~args.dry_run
    /\ pc = "page" /\ page_idx > 0
    /\ faults = 1 /\ faulted /\ ~embedding_vector
    /\ pageLog.ok200 = 1 /\ pageLog.upserts = 1 /\ pageLog.writes = 1
    /\ <<doc_name, page_idx - 1>> \in indexed
    /\ durable[doc_name].last_processed_page = page_idx
    /\ MapGet(localFile, doc_name) = page_idx

\* C29: a page that fails to render is passed over and nothing else: the step
\* writes no store and publishes nothing, the page has had no post, upsert or
\* checkpoint write, it is not counted, and the page loop stands at p + 1.
C29_RenderFailureSkipsPage ==
    [][pc = "render" =>
          IF NoFaultInStep
          THEN pc' = "describe" /\ page_idx' = page_idx
          ELSE /\ pc' = "page" /\ page_idx' = page_idx + 1
               /\ UNCHANGED <<stores, search_index, counters, docIdx>>
               /\ pageLog' = NoLog
               /\ <<page_idx, "render">> \in skipped']_vars

\* C29 witness: page 0 failed to render, the only failure; nothing is recorded
\* or published for it and page 1 is being rendered.
C29_Witness ==
    /\ pc = "render" /\ page_idx = 1 /\ ~args.dry_run
    /\ faults = 1 /\ <<0, "render">> \in skipped
    /\ <<doc_name, 0>> \notin indexed
    /\ EffectiveResumePoint(durable, localFile, doc_name) = 0

\* C30: a document that cannot be opened or measured is passed over with no
\* store written, nothing published and no page counted; whatever failed in a
\* document or in its pages, the loop goes on to the next document, which is
\* taken up as long as the budget is not reached.
C30_DocumentIsolation ==
    [][/\ (pc = "doc" /\ docIdx <= Len(documents) /\ ~BudgetReached) => pc' \in {"doc", "page"}
       /\ (pc = "doc" /\ pc' = "doc" /\ docIdx' # docIdx) =>
             /\ docIdx' = docIdx + 1
             /\ UNCHANGED <<stores, search_index, pages_processed>>
       /\ (pc = "page" /\ pc' \notin {"page", "render"}) =>
             (pc' = "doc" /\ docIdx' = docIdx + 1)]_vars

\* C30 witness: the first document could not be opened, the only failure:
\* nothing is recorded or published for it, and a page of the second document
\* is being rendered.
C30_Witness ==
    /\ pc = "render" /\ docIdx = 2 /\ ~args.dry_run
    /\ table_client /\ faults = 1 /\ faulted
    /\ durable[documents[1].name] = NoRec
    /\ MapGet(localFile, documents[1].name) = 0
    /\ \A p \in 0..MaxPages : <<documents[1].name, p>> \notin indexed
    /\ documents_processed = 0

\* ------------------------------------------------ the SharePoint fetcher

File(n) == [name |-> n, folder |-> FALSE]
Folder(n) == [name |-> n, folder |-> TRUE]
\* names for which file_path.lower().endswith('.pdf') holds
PdfNames == {"w.pdf", "x.pdf", "y.pdf", "z.pdf"}
Sublists(s) == {SelectSeq(s, LAMBDA e : e \in keep) : keep \in SUBSET {s[i] : i \in DOMAIN s}}
\* the drives: the root holds files and perhaps the folder "sub", which holds
\* files and perhaps the folder "deep", which holds files
Drives ==
    { (<<>> :> (rf \o (IF hasSub THEN <<Folder("sub")>> ELSE <<>>)))
      @@ (IF hasSub
          THEN (<<"sub">> :> ((IF hasDeep THEN <<Folder("deep")>> ELSE <<>>) \o sf))
               @@ (IF hasDeep THEN (<<"sub", "deep">> :> df) ELSE <<>>)
          ELSE <<>>)
      : rf \in Sublists(<<File("w.pdf"), File("n.txt"), File("x.pdf")>>),
        sf \in Sublists(<<File("y.pdf")>>),
        df \in Sublists(<<File("z.pdf")>>),
        hasSub \in BOOLEAN, hasDeep \in BOOLEAN }

\* list_drive_folder: one request for the children of the folder; a file is
\* counted in the shared file_counter and appended to the items_list of this
\* call; a folder is listed by a recursive call whose return value is not
\* used. `failing` are the folders whose request fails (raise_for_status), as
\* does the request for a folder that does not exist.
RECURSIVE list_drive_folder(_, _, _, _, _)
RECURSIVE ListItems(_, _, _, _, _, _, _, _)
ListItems(drv, failing, current_folder, parent_path, items, i, file_counter, items_list) ==
    IF i > Len(items)
    THEN [raised |-> FALSE, count |-> file_counter, items_list |-> items_list]
    ELSE LET item == items[i]
             item_path == IF current_folder # <<>>
                          THEN IF parent_path # <<>>
                               THEN Append(parent_path, item.name)
                               ELSE Append(current_folder, item.name)
                          ELSE Append(parent_path, item.name)
         IN  IF item.folder
             THEN LET subfolder_path == Append(current_folder, item.name)
                      sub == list_drive_folder(drv, failing, subfolder_path, item_path, file_counter)
                  IN  IF sub.raised
                      THEN sub
                      ELSE ListItems(drv, failing, current_folder, parent_path, items, i + 1,
                                     sub.count, items_list)
             ELSE ListItems(drv, failing, current_folder, parent_path, items, i + 1,
                            file_counter + 1, Append(items_list, item_path))
list_drive_folder(drv, failing, folder, parent_path, file_counter) ==
    IF folder \in failing \/ folder \notin DOMAIN drv
    THEN [raised |-> TRUE, count |-> file_counter, items_list |-> <<>>]
    ELSE ListItems(drv, failing, folder, parent_path, drv[folder], 1, file_counter, <<>>)

\* what get_sharepoint_documents leaves alone
notFetch == <<stores, env, mainv, search_index, edits, other, progressv, idv, fv, pc, runv, counters,
             expired, docv, pagev, skipped, pageLog>>

\* the outer `except Exception` of get_sharepoint_documents: return []
ReturnEmpty ==
    /\ fpc' = "returned"
    /\ fetched' = <<>>
    /\ fetchLog' = [fetchLog EXCEPT !.early = TRUE]

\* Step 1: get_access_token
GetAccessToken(ok) ==
    /\ fpc = "token"
    /\ IF ok THEN fpc' = "site" /\ UNCHANGED <<fetched, fetchLog>> ELSE ReturnEmpty
    /\ UNCHANGED <<drive, folder_path, total_files, files_list, pdf_files, file_idx>>
    /\ UNCHANGED notFetch

\* Step 2: get_site_id
GetSiteId(ok) ==
    /\ fpc = "site"
    /\ IF ok THEN fpc' = "drive" /\ UNCHANGED <<fetched, fetchLog>> ELSE ReturnEmpty
    /\ UNCHANGED <<drive, folder_path, total_files, files_list, pdf_files, file_idx>>
    /\ UNCHANGED notFetch

\* Step 3: get_drive_id; a site without drives gives None and `return []`
GetDriveId(r) ==
    /\ fpc = "drive"
    /\ IF r = "id" THEN fpc' = "list" /\ UNCHANGED <<fetched, fetchLog>> ELSE ReturnEmpty
    /\ UNCHANGED <<drive, folder_path, total_files, files_list, pdf_files, file_idx>>
    /\ UNCHANGED notFetch

\* Step 4: total_files, files_list = list_drive_folder(token, drive_id, folder_path)
ListFiles(failing) ==
    /\ fpc = "list"
    /\ LET r == list_drive_folder(drive, failing, folder_path, <<>>, 0)
       IN  IF r.raised
           THEN ReturnEmpty /\ UNCHANGED <<total_files, files_list>>
           ELSE /\ total_files' = r.count
                /\ files_list' = r.items_list
                /\ fpc' = "details"
                /\ UNCHANGED <<fetched, fetchLog>>
    /\ UNCHANGED <<drive, folder_path, pdf_files, file_idx>>
    /\ UNCHANGED notFetch

\* variant: a failed details request ends the call with an empty list
FileDetails_unguarded(ok, url) ==
    /\ fpc = "details"
    /\ file_idx <= Len(files_list)
    /\ LET file_path == files_list[file_idx]
       IN  IF file_path[Len(file_path)] \in PdfNames
           THEN IF ok
                THEN /\ pdf_files' = Append(pdf_files, [name |-> file_path[Len(file_path)],
                                                        path |-> file_path, download_url |-> url])
                     /\ file_idx' = file_idx + 1
                     /\ fetchLog' = IF url THEN fetchLog
                                   ELSE [fetchLog EXCEPT !.nourl = @ \cup {file_path}]
                     /\ UNCHANGED <<fpc, fetched>>
                ELSE /\ fpc' = "returned"
                     /\ fetched' = <<>>
                     /\ fetchLog' = [fetchLog EXCEPT !.dropped = @ \cup {file_path}]
                     /\ UNCHANGED <<pdf_files, file_idx>>
           ELSE /\ file_idx' = file_idx + 1
                /\ UNCHANGED <<fpc, pdf_files, fetched, fetchLog>>
    /\ UNCHANGED <<drive, folder_path, total_files, files_list>>
    /\ UNCHANGED notFetch

\* one pass of `for file_path in files_list`: the details request of a PDF
\* file; its failure is caught in the loop body
FileDetails(ok, url) ==
    /\ fpc = "details"
    /\ file_idx <= Len(files_list)
    /\ LET file_path == files_list[file_idx]
       IN  IF file_path[Len(file_path)] \in PdfNames
           THEN IF ok
                THEN /\ pdf_files' = Append(pdf_files, [name |-> file_path[Len(file_path)],
                                                        path |-> file_path, download_url |-> url])
                     /\ fetchLog' = IF url THEN fetchLog
                                   ELSE [fetchLog EXCEPT !.nourl = @ \cup {file_path}]
                ELSE /\ fetchLog' = [fetchLog EXCEPT !.dropped = @ \cup {file_path}]
                     /\ UNCHANGED pdf_files
           ELSE UNCHANGED <<pdf_files, fetchLog>>
    /\ file_idx' = file_idx + 1
    /\ UNCHANGED <<drive, folder_path, fpc, total_files, files_list, fetched>>
    /\ UNCHANGED notFetch

DetailsDone ==
    /\ fpc = "details"
    /\ file_idx > Len(files_list)
    /\ fpc' = "download"
    /\ file_idx' = 1
    /\ UNCHANGED <<drive, folder_path, total_files, files_list, pdf_files, fetched, fetchLog>>
    /\ UNCHANGED notFetch

\* Step 5, one pass of `for pdf_file in pdf_files`: the download; its failure
\* is caught in the loop body, a file without download URL is passed over
Download(ok) ==
    /\ fpc = "download"
    /\ file_idx <= Len(pdf_files)
    /\ LET pdf_file == pdf_files[file_idx]
       IN  IF pdf_file.download_url
           THEN IF ok
                THEN /\ fetched' = Append(fetched, [name |-> pdf_file.name, path |-> pdf_file.path])
                     /\ UNCHANGED fetchLog
                ELSE /\ fetchLog' = [fetchLog EXCEPT !.dropped = @ \cup {pdf_file.path}]
                     /\ UNCHANGED fetched
           ELSE UNCHANGED <<fetched, fetchLog>>
    /\ file_idx' = file_idx + 1
    /\ UNCHANGED <<drive, folder_path, fpc, total_files, files_list, pdf_files>>
    /\ UNCHANGED notFetch

\* `return documents`
ReturnDocuments ==
    /\ fpc = "download"
    /\ file_idx > Len(pdf_files)
    /\ fpc' = "returned"
    /\ UNCHANGED <<drive, folder_path, total_files, files_list, pdf_files, file_idx, fetched, fetchLog>>
    /\ UNCHANGED notFetch

\* get_sharepoint_documents is called on a drive and a folder path
InitFetch ==
    /\ InitStores({"a"}, {TRUE}, {1})
    /\ drive \in Drives
    /\ folder_path \in {<<>>, <<"sub">>}
    /\ fpc = "token"
    /\ total_files = 0
    /\ files_list = <<>>
    /\ pdf_files = <<>>
    /\ file_idx = 1
    /\ fetched = <<>>
    /\ fetchLog = NoFetchLog
    /\ ProgressIdle
    /\ IdsIdle

NextFetch ==
    \/ \E ok \in BOOLEAN : GetAccessToken(ok)
    \/ \E ok \in BOOLEAN : GetSiteId(ok)
    \/ \E r \in {"id", "none", "raise"} : GetDriveId(r)
    \/ \E failing \in SUBSET (DOMAIN drive) : ListFiles(failing)
    \/ \E ok \in BOOLEAN, url \in BOOLEAN : FileDetails(ok, url)
    \/ DetailsDone
    \/ \E ok \in BOOLEAN : Download(ok)
    \/ ReturnDocuments

SpecFetch == InitFetch /\ [][NextFetch]_vars

\* ---------------------------------------------------------------- C31

\* the paths of the files in a folder of the drive and in all of its subfolders
RECURSIVE FilesUnder(_, _)
FilesUnder(drv, folder) ==
    {Append(folder, drv[folder][i].name) : i \in {j \in DOMAIN drv[folder] : ~drv[folder][j].folder}}
    \cup UNION {FilesUnder(drv, Append(folder, drv[folder][i].name))
                : i \in {j \in DOMAIN drv[folder] : drv[folder][j].folder}}
Listed == fpc \in {"details", "download"}

\* C31: once list_drive_folder has returned, the list it returned holds the
\* paths of all files of the folder and of all its subfolders, and the count
\* it returned is the length of that list.
C31_ListsRecursively ==
    Listed =>
        /\ {files_list[i] : i \in DOMAIN files_list} = FilesUnder(drive, folder_path)
        /\ total_files = Len(files_list)

\* ---------------------------------------------------------------- C32

\* the listed PDF files that have a download URL and of which neither the
\* details request nor the download failed, in the order of the listing
Survivors ==
    SelectSeq(files_list, LAMBDA p : /\ p[Len(p)] \in PdfNames
                                     /\ p \notin fetchLog.dropped
                                     /\ p \notin fetchLog.nourl)

\* C32: get_sharepoint_documents ends by returning a list whatever fails; when
\* the token, site, drive or listing step failed the list is empty; otherwise
\* it holds, in the order of the listing, every listed PDF file except those
\* whose own details request or download failed (or that have no download URL).
C32_FetchNeverRaises ==
    /\ fpc \in {"token", "site", "drive", "list", "details", "download", "returned"}
    /\ fpc = "returned" =>
         IF fetchLog.early
         THEN fetched = <<>>
         ELSE [i \in DOMAIN fetched |-> fetched[i].path] = Survivors
\* the request for one file failed and another file is returned
C32_Witness ==
    /\ fpc = "returned"
    /\ fetchLog.dropped # {}
    /\ fetched # <<>>
    /\ \A i \in DOMAIN fetched : fetched[i].path \notin fetchLog.dropped

\* ---------------------------------------------------------------- C33

\* C33: in invocations that follow one another without --reset-tracking, no
\* write of the durable record of a document under the same contentHash
\* lowers its lastProcessedPage, also when a lookup of the record has failed
\* (stated for behaviours in which at most one external call has failed).
C33_DurableMonotone ==
    [][\A n \in Names :
          (/\ faults' <= 1
           /\ ~args'.reset_tracking
           /\ durable[n] # NoRec /\ durable'[n] # NoRec
           /\ durable'[n].doc_hash = durable[n].doc_hash)
          => durable'[n].last_processed_page >= durable[n].last_processed_page]_vars

\* ---------------------------------------------------------------- C34

\* the step is a call update_file_progress(doc_name, page_idx + 1)
CallsUpdateFileProgress ==
    \/ pc = "checkpoint" /\ pc' = "page"
    \/ pc = "publish" /\ driver = "cli" /\ args.dry_run /\ pc' = "page"

\* C34: a call update_file_progress(name, page) leaves the entry of every other
\* document in last_files.json as it was (present with the same value, or
\* absent), also when the read of the file fails inside the call (stated for
\* calls before which no external call has failed).
C34_ProgressFrame ==
    [][(CallsUpdateFileProgress /\ faults = 0) =>
          \A n \in Names \ {doc_name} :
              /\ n \in DOMAIN localFile <=> n \in DOMAIN localFile'
              /\ n \in DOMAIN localFile => localFile'[n] = localFile[n]]_vars

\* ------------------------------- update_file_progress of two invocations

\* what update_file_progress leaves alone
notProgress == <<content, durable, indexed, env, mainv, search_index, edits, other, fetchv, idv, fv, pc,
                runv, counters, expired, docv, pagev, skipped, pageLog>>

\* the document an invocation advances: the two advance different documents
DocOf(i) == IF i = 1 THEN "a" ELSE "b"

\* update_file_progress(file_name, current_page) is entered
EnterUpdate(i, page) ==
    /\ progress_calls[i].pc = "idle"
    /\ page = MapGet(latest, DocOf(i)) + 1
    /\ page <= MaxPages
    /\ progress_calls' = [progress_calls EXCEPT ![i] =
           [pc |-> "load", file_name |-> DocOf(i), current_page |-> page,
            last_files_data |-> EmptyMap]]
    /\ UNCHANGED <<localFile, latest>>
    /\ UNCHANGED notProgress

\* last_files_data = load_last_files_json(); last_files_data[file_name] = current_page
LoadAndPut(i, loadOk) ==
    /\ progress_calls[i].pc = "load"
    /\ progress_calls' = [progress_calls EXCEPT ![i].pc = "save",
           ![i].last_files_data = MapPut(load_last_files_json(localFile, loadOk),
                                         progress_calls[i].file_name,
                                         progress_calls[i].current_page)]
    /\ UNCHANGED <<localFile, latest>>
    /\ UNCHANGED notProgress

\* save_last_files_json(last_files_data); the call returns
SaveAndReturn(i, saveOk) ==
    /\ progress_calls[i].pc = "save"
    /\ localFile' = save_last_files_json(localFile, progress_calls[i].last_files_data, saveOk)
    /\ latest' = MapPut(latest, progress_calls[i].file_name, progress_calls[i].current_page)
    /\ progress_calls' = [progress_calls EXCEPT ![i] = NoCall]
    /\ UNCHANGED notProgress

\* two invocations call update_file_progress, each for its document, the
\* statements of the two calls in any order; no call fails
NextProgress ==
    \/ \E i \in Invocations, page \in 1..MaxPages : EnterUpdate(i, page)
    \/ \E i \in Invocations : LoadAndPut(i, TRUE)
    \/ \E i \in Invocations : SaveAndReturn(i, TRUE)

InitProgress == InitBudgets(Names, {FALSE}, {MaxBudget})

SpecProgress == InitProgress /\ [][NextProgress]_vars

\* ---------------------------------------------------------------- C35

\* C35: when the calls of update_file_progress of two overlapping invocations
\* that advance different documents have all returned, last_files.json holds
\* for each of the two documents the latest value written for it.
C35_NoLostUpdate ==
    (\A i \in Invocations : progress_calls[i].pc = "idle")
        => \A n \in DOMAIN latest : n \in DOMAIN localFile /\ localFile[n] = latest[n]

\* ---------------------------------------------------------------- C36

\* C36: no step of a dry-run invocation changes a durable record (stated for
\* behaviours in which no external call has failed).
C36_DryRunFrame ==
    [][(pc # "idle" /\ args.dry_run /\ faults' = 0) => durable' = durable]_vars

\* ----------------------------------- the ids of the timer-triggered driver

\* what the publish step of a page leaves alone
notIds == <<content, durable, localFile, indexed, env, mainv, edits, other, fetchv, progressv, fv, pc,
            runv, counters, expired, docv, pagev, skipped, pageLog>>

\* the timer driver publishes page `page` (numbered from 1) of document `name`
\* under the id derived from the two
PublishPageTimer(name, page) ==
    /\ <<name, page>> \in to_publish
    /\ search_index' = IndexUpsert(search_index, TimerDocumentId(name, page - 1), name, page - 1)
    /\ to_publish' = to_publish \ {<<name, page>>}
    /\ published' = published \cup {<<name, page>>}
    /\ UNCHANGED notIds

\* up to three pages of documents in the folder are to be published
MaxToPublish == 3
InitIds ==
    /\ InitStores({"a"}, {TRUE}, {MaxBudget})
    /\ FetchIdle
    /\ ProgressIdle
    /\ to_publish \in {s \in SUBSET (DocNames \X (1..MaxPages)) : Cardinality(s) <= MaxToPublish}
    /\ published = {}

NextIds == \E name \in DocNames, page \in 1..MaxPages : PublishPageTimer(name, page)

SpecIds == InitIds /\ [][NextIds]_vars

\* ---------------------------------------------------------------- C37

\* C37: in the timer-triggered driver two different (document name, page)
\* pairs that were published never have the same id, and every page that was
\* published keeps its entry in the index when another page is published.
C37_UniqueIds ==
    /\ \A np1, np2 \in published :
          TimerDocumentId(np1[1], np1[2] - 1) = TimerDocumentId(np2[1], np2[2] - 1) => np1 = np2
    /\ \A np \in published :
          \E e \in search_index : e.name = np[1] /\ e.page = np[2] - 1

\* ---------------------------------------------------------------- C38

\* C38: when an invocation of the CLI driver has left its document loop,
\* pages_processed is the number of ledger advances it invoked and
\* documents_processed is the number of documents that entered the page loop.
C38_Counters ==
    (pc = "report" /\ driver = "cli") =>
        /\ pages_processed = tally.advances
        /\ documents_processed = tally.entered
\* C38 witness: of two documents one was passed over and is not counted; the
\* page loop of the other stopped on the page budget and it is counted.
C38_Witness ==
    /\ pc = "report" /\ driver = "cli"
    /\ Len(documents) = 2 /\ docIdx = 3
    /\ documents_processed = 1 /\ tally.entered = 1
    /\ pages_processed = max_pages_per_execution /\ tally.advances >= 1
    /\ page_idx < total_pages

=============================================================================
